---- MODULE Spec2Model ----
(***************************************************************************)
(* Model of the live-edit runtime entry points of                          *)
(* src/runtime/runtime-liveedit.cc.  Each RUNTIME_FUNCTION is one action.  *)
(* The LiveEdit:: engine the entry points delegate to (src/debug/liveedit) *)
(* is modelled from the design document of the engine.                     *)
(***************************************************************************)
EXTENDS Integers, Sequences, FiniteSets, TLC

VARIABLES
    live_edit_enabled,  \* isolate->debug()->live_edit_enabled()
    halted,             \* a CHECK failed: the process was aborted
    feature_tracked,    \* DebugFeatureTracker has seen kLiveEdit
    script_source,      \* script id -> source text (ids are 1..Len)
    script_sfis,        \* script id -> shared_function_infos, slot per literal id
    fn_script,          \* SharedFunctionInfo -> script id, 0 = undefined
    fn_lit,             \* SharedFunctionInfo -> function literal id
    fn_code,            \* SharedFunctionInfo -> compiled code object
    fn_pos,             \* SharedFunctionInfo -> <<start, end>>
    fn_nested,          \* SharedFunctionInfo -> embedded nested references
    frames,             \* thread -> stack of executing functions, bottom first
    call,               \* the runtime call made last, with its result
    repeated            \* that call repeats the call made before it

vars == <<live_edit_enabled, halted, feature_tracked, script_source,
          script_sfis, fn_script, fn_lit, fn_code, fn_pos, fn_nested,
          frames, call, repeated>>

heap == <<script_source, script_sfis, fn_script, fn_lit, fn_code, fn_pos,
          fn_nested>>

----------------------------------------------------------------------------
(* Bounds of the model *)

MaxLen == 2          \* longest text handed to CompareStrings
NumFns == 2          \* SharedFunctionInfos in the heap
MaxScripts == 2      \* scripts ever created
MaxDepth == 2        \* deepest stack of a thread
MaxPos == 3          \* largest source offset
MaxArr == 2          \* longest array handed to CheckAndDropActivations

NL == "\n"
Alphabet == {"a", NL}

Fns == 1..NumFns
NoFn == 0
NoScript == 0
OldCode == "code0"
NewCodes == {"code1", "code2"}
Threads == {"active", "archived"}

RECURSIVE TextsOfLen(_)
TextsOfLen(n) ==
    IF n = 0 THEN {<<>>}
    ELSE {Append(t, c) : t \in TextsOfLen(n - 1), c \in Alphabet}

Text == UNION {TextsOfLen(n) : n \in 0..MaxLen}

Min(x, y) == IF x <= y THEN x ELSE y

\* t[from+1 .. to], offsets 0-based and half-open as in the runtime
Slice(t, from, to) == SubSeq(t, from + 1, to)

----------------------------------------------------------------------------
(* Text Differencer: LiveEdit::CompareStrings *)

\* number of tokens that must be skipped to align a[i..] with b[j..]
RECURSIVE Cost(_, _, _, _)
Cost(a, b, i, j) ==
    IF i > Len(a) THEN Len(b) - j + 1
    ELSE IF j > Len(b) THEN Len(a) - i + 1
    ELSE IF a[i] = b[j] THEN Cost(a, b, i + 1, j + 1)
    ELSE 1 + Min(Cost(a, b, i + 1, j), Cost(a, b, i, j + 1))

\* chunks <<pos1, end1, pos2, end2>> (0-based, half-open, in tokens) where
\* a and b differ; st is the start of the chunk being collected, or <<>>
RECURSIVE Walk(_, _, _, _, _, _)
Walk(a, b, i, j, acc, st) ==
    LET closed == IF st = <<>> THEN acc
                  ELSE Append(acc, <<st[1], i - 1, st[2], j - 1>>)
        opened == IF st = <<>> THEN <<i - 1, j - 1>> ELSE st
    IN  IF i > Len(a) /\ j > Len(b) THEN closed
        ELSE IF i <= Len(a) /\ j <= Len(b) /\ a[i] = b[j]
             THEN Walk(a, b, i + 1, j + 1, closed, <<>>)
        ELSE IF j > Len(b)
                \/ (i <= Len(a)
                    /\ Cost(a, b, i + 1, j) <= Cost(a, b, i, j + 1))
             THEN Walk(a, b, i + 1, j, acc, opened)
        ELSE Walk(a, b, i, j + 1, acc, opened)

CalculateDifference(a, b) == Walk(a, b, 1, 1, <<>>, <<>>)

\* the lines of a text, each with its terminating newline
RECURSIVE Lines(_)
Lines(t) ==
    IF t = <<>> THEN <<>>
    ELSE LET ends == {k \in 1..Len(t) : t[k] = NL}
             cut == IF ends = {} THEN Len(t)
                    ELSE CHOOSE k \in ends : \A m \in ends : k <= m
         IN  <<SubSeq(t, 1, cut)>> \o Lines(SubSeq(t, cut + 1, Len(t)))

\* character offset at which line k (0-based) starts
RECURSIVE LineStart(_, _)
LineStart(ls, k) ==
    IF k = 0 THEN 0 ELSE LineStart(ls, k - 1) + Len(ls[k])

\* the token-level regions of one line-level chunk, in character offsets
TokenChunks(s1, s2, l1, l2, lc) ==
    LET b1 == LineStart(l1, lc[1])
        e1 == LineStart(l1, lc[2])
        b2 == LineStart(l2, lc[3])
        e2 == LineStart(l2, lc[4])
        fine == CalculateDifference(Slice(s1, b1, e1), Slice(s2, b2, e2))
    IN  [k \in 1..Len(fine) |->
            <<b1 + fine[k][1], b1 + fine[k][2], b2 + fine[k][4]>>]

RECURSIVE Flatten(_)
Flatten(ss) == IF ss = <<>> THEN <<>> ELSE Head(ss) \o Flatten(Tail(ss))

\* triplets <<pos1, pos1_end, pos2_end>>, first by lines, then by tokens
LiveEdit_CompareStrings(s1, s2) ==
    LET l1 == Lines(s1)
        l2 == Lines(s2)
        coarse == CalculateDifference(l1, l2)
    IN  Flatten([k \in 1..Len(coarse) |->
                    TokenChunks(s1, s2, l1, l2, coarse[k])])

----------------------------------------------------------------------------
(* Values that cross the runtime boundary *)

Undefined == <<"undefined">>
Null == <<"null">>
Fatal == <<"fatal">>             \* a CHECK failed
Exception == <<"exception">>     \* isolate->heap()->exception()
WrapSFI(f) == <<"JSValue", "SharedFunctionInfo", f>>
WrapScript(s) == <<"JSValue", "Script", s>>
ScriptObj(s) == <<"Script", s>>
Str(t) == <<"String", t>>
SharedInfoWrapper(f) == <<"JSArray", "SharedInfoWrapper", f>>
FunctionInfoWrapper(c) == <<"JSArray", "FunctionInfoWrapper", c>>
PlainArray(xs) == <<"JSArray", "plain", xs>>

IsJSValue(v) == v[1] = "JSValue"
IsString(v) == v[1] = "String"
IsScript(v) == v[1] = "Script"
WrapsScript(v) == IsJSValue(v) /\ v[2] = "Script"
WrapsSFI(v) == IsJSValue(v) /\ v[2] = "SharedFunctionInfo"
SharedInfoWrapper_IsInstance(v) ==
    v[1] = "JSArray" /\ v[2] = "SharedInfoWrapper"

ScriptIds == 1..Len(script_source)

\* the CHECK missing from CompareStrings
EnabledCheckButCompare(entry) ==
    IF entry = "CompareStrings" THEN TRUE ELSE live_edit_enabled

\* CHECK(isolate->debug()->live_edit_enabled()), first statement of entry
EnabledCheck(entry) == live_edit_enabled

\* the call aborts the process; nothing else is touched
Abort(op, args) ==
    /\ halted' = TRUE
    /\ call' = [op |-> op, args |-> args, result |-> Fatal]
    /\ repeated' = (call.op = op /\ call.args = args)
    /\ UNCHANGED <<live_edit_enabled, feature_tracked, heap, frames>>

Return(op, args, result) ==
    /\ call' = [op |-> op, args |-> args, result |-> result]
    /\ repeated' = (call.op = op /\ call.args = args)
    /\ UNCHANGED <<live_edit_enabled, halted>>

----------------------------------------------------------------------------
(* Runtime_LiveEditCompareStrings *)

\* the first argument read for both texts
CompareStringsSameArg(s1, s2) == LiveEdit_CompareStrings(s1, s1)

\* the engine call made at line 260
CompareStringsResult(s1, s2) == LiveEdit_CompareStrings(s1, s2)

\* array_length >= 0 in place of array_length > 0
TrackAlways(tracked, result) ==
    IF Len(result) >= 0 THEN TRUE ELSE tracked

\* if (array_length > 0) Track(kLiveEdit)
TrackAfterCompare(tracked, result) ==
    IF Len(result) > 0 THEN TRUE ELSE tracked

CompareStrings(s1, s2) ==
    /\ ~halted
    /\ LET args == <<Str(s1), Str(s2)>>
       IN  IF ~EnabledCheck("CompareStrings")
           THEN Abort("CompareStrings", args)
           ELSE LET result == CompareStringsResult(s1, s2)
                IN  /\ feature_tracked' =
                           TrackAfterCompare(feature_tracked, result)
                    /\ Return("CompareStrings", args, PlainArray(result))
                    /\ UNCHANGED <<heap, frames>>

----------------------------------------------------------------------------
(* Activation Scanner: LiveEdit::CheckAndDropActivations *)

HasActivation(fr, f) ==
    \E t \in DOMAIN fr : \E i \in 1..Len(fr[t]) : fr[t][i] = f

PatchabilityStatus(fr, f, do_drop) ==
    IF ~HasActivation(fr, f) THEN "AVAILABLE"
    ELSE IF do_drop THEN "REPLACED_ON_ACTIVE_STACK"
    ELSE "BLOCKED_ACTIVE"

\* unwinding to the caller of the lowest frame of a target discards that
\* frame and everything above it
DropActivations(fr, targets) ==
    [t \in DOMAIN fr |->
        LET hits == {i \in 1..Len(fr[t]) : fr[t][i] \in targets}
        IN  IF hits = {} THEN fr[t]
            ELSE SubSeq(fr[t], 1,
                        (CHOOSE i \in hits : \A j \in hits : i <= j) - 1)]

LiveEdit_CheckAndDropActivations(fr, old_shared, new_shared, do_drop) ==
    [status |-> [i \in 1..Len(old_shared) |->
                    PatchabilityStatus(fr, old_shared[i][3], do_drop)],
     frames |-> IF do_drop
                THEN DropActivations(fr, {old_shared[i][3] :
                                            i \in 1..Len(old_shared)})
                ELSE fr]

----------------------------------------------------------------------------
(* Runtime_LiveEditCheckAndDropActivations *)

\* the CHECK on the elements of new_shared_array left out
ActivationArgsOldOnly(old_shared, new_shared) ==
    /\ Len(new_shared) = Len(old_shared)
    /\ \A i \in 1..Len(old_shared) : WrapsSFI(old_shared[i])

\* the CHECKs of lines 223-243
ActivationArgsChecked(old_shared, new_shared) ==
    /\ Len(new_shared) = Len(old_shared)
    /\ \A i \in 1..Len(old_shared) :
          /\ WrapsSFI(old_shared[i])
          /\ new_shared[i] = Undefined \/ WrapsSFI(new_shared[i])

\* do_drop handed over negated
DelegateNegatedDrop(fr, old_shared, new_shared, do_drop) ==
    LiveEdit_CheckAndDropActivations(fr, old_shared, new_shared, ~do_drop)

\* do_drop handed over as true
DelegateForcedDrop(fr, old_shared, new_shared, do_drop) ==
    LiveEdit_CheckAndDropActivations(fr, old_shared, new_shared, TRUE)

\* the engine call of line 245
DelegateCheckAndDrop(fr, old_shared, new_shared, do_drop) ==
    LiveEdit_CheckAndDropActivations(fr, old_shared, new_shared, do_drop)

CheckAndDropActivations(old_shared, new_shared, do_drop) ==
    /\ ~halted
    /\ LET args == <<PlainArray(old_shared), PlainArray(new_shared), do_drop>>
       IN  IF ~EnabledCheck("CheckAndDropActivations")
              \/ ~ActivationArgsChecked(old_shared, new_shared)
           THEN Abort("CheckAndDropActivations", args)
           ELSE LET r == DelegateCheckAndDrop(frames, old_shared, new_shared,
                                              do_drop)
                IN  /\ frames' = r.frames
                    /\ Return("CheckAndDropActivations", args,
                              PlainArray(r.status))
                    /\ UNCHANGED <<feature_tracked, heap>>

----------------------------------------------------------------------------
(* Code Swapper: LiveEdit::ReplaceFunctionCode, ReplaceRefToNestedFunction *)

\* the swap runs only when the target has no activation left
LiveEdit_ReplaceFunctionCode(code, fr, new_code, f) ==
    IF HasActivation(fr, f) THEN code
    ELSE [code EXCEPT ![f] = new_code]

LiveEdit_ReplaceRefToNestedFunction(nested, parent, orig, subst) ==
    IF orig \in nested[parent]
    THEN [nested EXCEPT ![parent] = (@ \ {orig}) \cup {subst}]
    ELSE nested

----------------------------------------------------------------------------
(* Runtime_LiveEditReplaceFunctionCode *)

\* line 143: the entry point has a single exit value
ReplaceFunctionCodeResult(f) == Undefined

ReplaceFunctionCode(new_compile_info, shared_info) ==
    /\ ~halted
    /\ LET args == <<new_compile_info, shared_info>>
           new_code == new_compile_info[3]
       IN  IF ~EnabledCheck("ReplaceFunctionCode")
              \/ ~SharedInfoWrapper_IsInstance(shared_info)
           THEN Abort("ReplaceFunctionCode", args)
           ELSE /\ fn_code' = LiveEdit_ReplaceFunctionCode(
                                  fn_code, frames, new_code, shared_info[3])
                /\ Return("ReplaceFunctionCode", args,
                          ReplaceFunctionCodeResult(shared_info[3]))
                /\ UNCHANGED <<feature_tracked, script_source, script_sfis,
                               fn_script, fn_lit, fn_pos, fn_nested, frames>>

----------------------------------------------------------------------------
(* Runtime_LiveEditReplaceRefToNestedFunction *)

ReplaceRefToNestedFunction(parent, orig, subst) ==
    /\ ~halted
    /\ LET args == <<parent, orig, subst>>
       IN  IF ~EnabledCheck("ReplaceRefToNestedFunction")
              \/ ~WrapsSFI(parent) \/ ~WrapsSFI(orig) \/ ~WrapsSFI(subst)
           THEN Abort("ReplaceRefToNestedFunction", args)
           ELSE /\ fn_nested' = LiveEdit_ReplaceRefToNestedFunction(
                                    fn_nested, parent[3], orig[3], subst[3])
                /\ Return("ReplaceRefToNestedFunction", args, Undefined)
                /\ UNCHANGED <<feature_tracked, script_source, script_sfis,
                               fn_script, fn_lit, fn_code, fn_pos, frames>>

----------------------------------------------------------------------------
(* Script Version Manager: ChangeScriptSource, FixupScript, SetFunctionScript *)

\* the previous version is kept only under a name
LiveEdit_ChangeScriptSource(sources, s, new_source, old_script_name) ==
    LET kept == IsString(old_script_name)
        replaced == [sources EXCEPT ![s] = new_source]
    IN  [sources |-> IF kept THEN Append(replaced, sources[s]) ELSE replaced,
         old_script |-> IF kept THEN ScriptObj(Len(sources) + 1)
                        ELSE Null]

\* list with f stored in slot k, grown with empty slots when too short
SetSlot(list, k, f) ==
    [i \in 1..(IF k > Len(list) THEN k ELSE Len(list)) |->
        IF i = k THEN f ELSE IF i <= Len(list) THEN list[i] ELSE NoFn]

ClearSlots(list, f) ==
    [i \in 1..Len(list) |-> IF list[i] = f THEN NoFn ELSE list[i]]

\* the record is not taken out of the list of its old script
SetScriptWithoutLeaving(sfis, owner, lit, f, script_object) ==
    IF IsScript(script_object)
    THEN [sfis |-> [sfis EXCEPT ![script_object[2]] =
                        SetSlot(@, lit[f] + 1, f)],
          owner |-> [owner EXCEPT ![f] = script_object[2]]]
    ELSE [sfis |-> sfis, owner |-> [owner EXCEPT ![f] = NoScript]]

\* SharedFunctionInfo::SetScript: leave the old list, enter the new one
SetScript(sfis, owner, lit, f, script_object) ==
    LET left == [s \in 1..Len(sfis) |-> ClearSlots(sfis[s], f)]
    IN  IF IsScript(script_object)
        THEN [sfis |-> [left EXCEPT ![script_object[2]] =
                            SetSlot(@, lit[f] + 1, f)],
              owner |-> [owner EXCEPT ![f] = script_object[2]]]
        ELSE [sfis |-> left, owner |-> [owner EXCEPT ![f] = NoScript]]

\* a fresh list of max_function_literal_id + 1 slots, every record of the
\* old list stored at its literal id
LiveEdit_FixupScript(sfis, lit, s, max_function_literal_id) ==
    [sfis EXCEPT ![s] =
        [k \in 1..(max_function_literal_id + 1) |->
            LET here == {i \in 1..Len(sfis[s]) :
                            sfis[s][i] # NoFn /\ lit[sfis[s][i]] = k - 1}
            IN  IF here = {} THEN NoFn
                ELSE sfis[s][CHOOSE i \in here : TRUE]]]

LiveEdit_FunctionSourceUpdated(lit, f, new_function_literal_id) ==
    [lit EXCEPT ![f] = new_function_literal_id]

----------------------------------------------------------------------------
(* Runtime_LiveEditReplaceScript *)

\* the previous version is dropped: null on both branches
ReplaceScriptResultNull(old_script) ==
    IF IsScript(old_script) THEN Null ELSE Null

\* lines 96-101: a script comes back wrapped, anything else as null
ReplaceScriptResult(old_script) ==
    IF IsScript(old_script) THEN WrapScript(old_script[2]) ELSE Null

ReplaceScript(original_script_value, new_source, old_script_name) ==
    /\ ~halted
    /\ LET args == <<original_script_value, Str(new_source), old_script_name>>
       IN  IF ~EnabledCheck("ReplaceScript")
              \/ ~WrapsScript(original_script_value)
           THEN Abort("ReplaceScript", args)
           ELSE LET r == LiveEdit_ChangeScriptSource(
                             script_source, original_script_value[3],
                             new_source, old_script_name)
                IN  /\ script_source' = r.sources
                    /\ script_sfis' =
                           IF Len(r.sources) > Len(script_source)
                           THEN Append(script_sfis, <<>>)
                           ELSE script_sfis
                    /\ Return("ReplaceScript", args,
                              ReplaceScriptResult(r.old_script))
                    /\ UNCHANGED <<feature_tracked, fn_script, fn_lit,
                                   fn_code, fn_pos, fn_nested, frames>>

----------------------------------------------------------------------------
(* Runtime_LiveEditFixupScript *)

FixupScript(script_value, max_function_literal_id) ==
    /\ ~halted
    /\ LET args == <<script_value, max_function_literal_id>>
       IN  IF ~EnabledCheck("FixupScript") \/ ~WrapsScript(script_value)
           THEN Abort("FixupScript", args)
           ELSE /\ script_sfis' = LiveEdit_FixupScript(
                                      script_sfis, fn_lit, script_value[3],
                                      max_function_literal_id)
                /\ Return("FixupScript", args, Undefined)
                /\ UNCHANGED <<feature_tracked, script_source, fn_script,
                               fn_lit, fn_code, fn_pos, fn_nested, frames>>

----------------------------------------------------------------------------
(* Runtime_LiveEditFunctionSourceUpdated *)

FunctionSourceUpdated(shared_info, new_function_literal_id) ==
    /\ ~halted
    /\ LET args == <<shared_info, new_function_literal_id>>
       IN  IF ~EnabledCheck("FunctionSourceUpdated")
              \/ ~SharedInfoWrapper_IsInstance(shared_info)
           THEN Abort("FunctionSourceUpdated", args)
           ELSE /\ fn_lit' = LiveEdit_FunctionSourceUpdated(
                                 fn_lit, shared_info[3],
                                 new_function_literal_id)
                /\ Return("FunctionSourceUpdated", args, Undefined)
                /\ UNCHANGED <<feature_tracked, script_source, script_sfis,
                               fn_script, fn_code, fn_pos, fn_nested, frames>>

----------------------------------------------------------------------------
(* Runtime_LiveEditFunctionSetScript *)

\* lines 157-161: a wrapped script is unwrapped, anything else passes as is
UnwrapScriptObject(script_object) ==
    IF IsJSValue(script_object) THEN ScriptObj(script_object[3])
    ELSE script_object

FunctionSetScript(function_object, script_object) ==
    /\ ~halted
    /\ LET args == <<function_object, script_object>>
       IN  IF ~EnabledCheck("FunctionSetScript")
           THEN Abort("FunctionSetScript", args)
           ELSE IF ~IsJSValue(function_object)
           THEN /\ Return("FunctionSetScript", args, Undefined)
                /\ UNCHANGED <<feature_tracked, heap, frames>>
           ELSE IF (IsJSValue(script_object) /\ ~WrapsScript(script_object))
                   \/ ~WrapsSFI(function_object)
           THEN Abort("FunctionSetScript", args)
           ELSE LET r == SetScript(script_sfis, fn_script, fn_lit,
                                   function_object[3],
                                   UnwrapScriptObject(script_object))
                IN  /\ script_sfis' = r.sfis
                    /\ fn_script' = r.owner
                    /\ Return("FunctionSetScript", args, Undefined)
                    /\ UNCHANGED <<feature_tracked, script_source, fn_lit,
                                   fn_code, fn_pos, fn_nested, frames>>

----------------------------------------------------------------------------
(* Position Patcher: LiveEdit::PatchFunctionPositions *)

\* where region k begins in the new text
NewBegin(chg, k) ==
    chg[k][1] + (IF k = 1 THEN 0 ELSE chg[k - 1][3] - chg[k - 1][2])

\* new_len - old_len of region k
Delta(chg, k) ==
    (chg[k][3] - NewBegin(chg, k)) - (chg[k][2] - chg[k][1])

RECURSIVE SumDelta(_, _)
SumDelta(chg, ks) ==
    IF ks = {} THEN 0
    ELSE LET k == CHOOSE x \in ks : TRUE
         IN  Delta(chg, k) + SumDelta(chg, ks \ {k})

\* only the regions that end strictly before the offset shift it
TranslatePositionStrict(pos, chg) ==
    LET inside == {k \in 1..Len(chg) : chg[k][1] < pos /\ pos < chg[k][2]}
        before == {k \in 1..Len(chg) : chg[k][2] < pos}
    IN  IF inside # {} THEN chg[CHOOSE k \in inside : TRUE][3]
        ELSE pos + SumDelta(chg, before)

\* an offset inside a region goes to the region's new end; any other is
\* shifted by the regions that end at or before it
TranslatePosition(pos, chg) ==
    LET inside == {k \in 1..Len(chg) : chg[k][1] < pos /\ pos < chg[k][2]}
        before == {k \in 1..Len(chg) : chg[k][2] <= pos}
    IN  IF inside # {} THEN chg[CHOOSE k \in inside : TRUE][3]
        ELSE pos + SumDelta(chg, before)

LiveEdit_PatchFunctionPositions(pos, f, chg) ==
    [pos EXCEPT ![f] = <<TranslatePosition(pos[f][1], chg),
                         TranslatePosition(pos[f][2], chg)>>]

----------------------------------------------------------------------------
(* Runtime_LiveEditPatchFunctionPositions *)

PatchFunctionPositions(shared_array, position_change_array) ==
    /\ ~halted
    /\ LET args == <<shared_array, PlainArray(position_change_array)>>
       IN  IF ~EnabledCheck("PatchFunctionPositions")
              \/ ~SharedInfoWrapper_IsInstance(shared_array)
           THEN Abort("PatchFunctionPositions", args)
           ELSE /\ fn_pos' = LiveEdit_PatchFunctionPositions(
                                 fn_pos, shared_array[3],
                                 position_change_array)
                /\ Return("PatchFunctionPositions", args, Undefined)
                /\ UNCHANGED <<feature_tracked, script_source, script_sfis,
                               fn_script, fn_lit, fn_code, fn_nested, frames>>

----------------------------------------------------------------------------
(* Runtime_LiveEditFindSharedFunctionInfosForScript *)

\* lines 30-52: one <<shared, start, end>> wrapper per SharedFunctionInfo of
\* the heap whose script is the given one, in heap order
FoundSharedFunctionInfos(s) ==
    {<<f, fn_pos[f][1], fn_pos[f][2]>> : f \in {g \in Fns : fn_script[g] = s}}

FindSharedFunctionInfosForScript(script_value) ==
    /\ ~halted
    /\ LET args == <<script_value>>
       IN  IF ~EnabledCheck("FindSharedFunctionInfosForScript")
              \/ ~WrapsScript(script_value)
           THEN Abort("FindSharedFunctionInfosForScript", args)
           ELSE /\ Return("FindSharedFunctionInfosForScript", args,
                          PlainArray(FoundSharedFunctionInfos(
                                         script_value[3])))
                /\ UNCHANGED <<feature_tracked, heap, frames>>

----------------------------------------------------------------------------
(* Runtime_LiveEditGatherCompileInfo *)

\* RETURN_RESULT_OR_FAILURE: the compiler's answer or the exception
GatherCompileInfo(script, source, compiles) ==
    /\ ~halted
    /\ LET args == <<script, Str(source)>>
       IN  IF ~EnabledCheck("GatherCompileInfo") \/ ~WrapsScript(script)
           THEN Abort("GatherCompileInfo", args)
           ELSE /\ Return("GatherCompileInfo", args,
                          IF compiles THEN PlainArray(source) ELSE Exception)
                /\ UNCHANGED <<feature_tracked, heap, frames>>

----------------------------------------------------------------------------
(* Initial states *)

InitSource == <<"a", NL>>

NoCall == [op |-> "none", args |-> <<>>, result |-> Undefined]

RECURSIVE SeqsOfLen(_, _)
SeqsOfLen(S, n) ==
    IF n = 0 THEN {<<>>}
    ELSE {Append(q, x) : q \in SeqsOfLen(S, n - 1), x \in S}

SeqsUpTo(S, n) == UNION {SeqsOfLen(S, k) : k \in 0..n}

Stacks == SeqsUpTo(Fns, MaxDepth)

\* one script; function 1 is the script function, the others are nested in it
InitHeap ==
    /\ script_source = <<InitSource>>
    /\ script_sfis = <<[k \in 1..NumFns |-> k]>>
    /\ fn_script = [f \in Fns |-> 1]
    /\ fn_lit = [f \in Fns |-> f - 1]
    /\ fn_code = [f \in Fns |-> OldCode]
    /\ fn_pos = [f \in Fns |-> IF f = 1 THEN <<0, Len(InitSource)>>
                                ELSE <<1, 2>>]
    /\ fn_nested = [f \in Fns |-> IF f = 1 THEN Fns \ {1} ELSE {}]

InitControl ==
    /\ live_edit_enabled \in BOOLEAN
    /\ halted = FALSE
    /\ feature_tracked = FALSE
    /\ call = NoCall
    /\ repeated = FALSE

NoFrames == [t \in Threads |-> <<>>]

----------------------------------------------------------------------------
(* CompareStrings on every pair of texts *)

InitDiff == InitControl /\ InitHeap /\ frames = NoFrames

NextDiff == \E s1 \in Text, s2 \in Text : CompareStrings(s1, s2)

SpecDiff == InitDiff /\ [][NextDiff]_vars

----------------------------------------------------------------------------
(* CheckAndDropActivations on well-formed arrays, any stacks *)

BusyStack == [i \in 1..MaxDepth |-> ((i - 1) % NumFns) + 1]

\* the active thread runs anything, an archived thread is idle or busy
InitAct ==
    /\ InitControl
    /\ InitHeap
    /\ \E st \in Stacks, ar \in {<<>>, BusyStack} :
          frames = [t \in Threads |-> IF t = "active" THEN st ELSE ar]

OldArrays == SeqsUpTo({WrapSFI(f) : f \in Fns}, MaxArr)

\* the replacements of an old array: every function deleted, or every
\* function replaced by itself
NewArraysFor(old) ==
    {[i \in 1..Len(old) |-> Undefined], old}

NextAct ==
    \E old \in OldArrays : \E new \in NewArraysFor(old) :
        \E do_drop \in BOOLEAN : CheckAndDropActivations(old, new, do_drop)

SpecAct == InitAct /\ [][NextAct]_vars

----------------------------------------------------------------------------
(* ReplaceFunctionCode after the activation check *)

CheckOne(f, do_drop) ==
    CheckAndDropActivations(<<WrapSFI(f)>>, <<Undefined>>, do_drop)

SwapOne(f, c) ==
    ReplaceFunctionCode(FunctionInfoWrapper(c), SharedInfoWrapper(f))

SwapUnwrapped(c) ==
    ReplaceFunctionCode(FunctionInfoWrapper(c), PlainArray(<<>>))

NextSwap ==
    \/ \E f \in Fns, do_drop \in BOOLEAN : CheckOne(f, do_drop)
    \/ \E f \in Fns, c \in NewCodes : SwapOne(f, c)
    \/ \E c \in NewCodes : SwapUnwrapped(c)

SpecSwap == InitAct /\ [][NextSwap]_vars

----------------------------------------------------------------------------
(* CheckAndDropActivations on arrays of any shape *)

BusyFrames == [t \in Threads |-> BusyStack]

InitShape == InitControl /\ InitHeap /\ frames \in {NoFrames, BusyFrames}

AnyOldArrays ==
    SeqsUpTo({WrapSFI(f) : f \in Fns} \cup {WrapScript(1)}, MaxArr)

AnyNewArrays ==
    SeqsUpTo({Undefined, WrapScript(1)}, MaxArr)

NextShape ==
    \E old \in AnyOldArrays, new \in AnyNewArrays, do_drop \in BOOLEAN :
        CheckAndDropActivations(old, new, do_drop)

SpecShape == InitShape /\ [][NextShape]_vars

----------------------------------------------------------------------------
(* PatchFunctionPositions of the script function, any change list *)

Ranges == {r \in (0..MaxPos) \X (0..MaxPos) : r[1] <= r[2]}

Triples == (0..MaxPos) \X (0..MaxPos) \X (0..MaxPos)

\* region r may follow the regions of chg: it begins after the last one
\* ends, is not empty on both sides, and its new text is not negative
Extends(chg, r) ==
    LET next == Append(chg, r)
        k == Len(next)
    IN  /\ r[1] <= r[2]
        /\ k > 1 => chg[k - 1][2] < r[1]
        /\ r[3] >= NewBegin(next, k)
        /\ ~(r[1] = r[2] /\ r[3] = NewBegin(next, k))

RECURSIVE ChangesOfLen(_)
ChangesOfLen(n) ==
    IF n = 0 THEN {<<>>}
    ELSE {Append(x[1], x[2]) :
            x \in {y \in ChangesOfLen(n - 1) \X Triples :
                      Extends(y[1], y[2])}}

MaxChanges == 2

ChangeArrays == UNION {ChangesOfLen(n) : n \in 0..MaxChanges}

\* the patched range still lies in a text of at most MaxPos characters
Fits(r, chg) ==
    /\ TranslatePosition(r[1], chg) <= MaxPos
    /\ TranslatePosition(r[2], chg) <= MaxPos

InitPatch ==
    /\ InitControl
    /\ script_source = <<InitSource>>
    /\ script_sfis = <<[k \in 1..NumFns |-> k]>>
    /\ fn_script = [f \in Fns |-> 1]
    /\ fn_lit = [f \in Fns |-> f - 1]
    /\ fn_code = [f \in Fns |-> OldCode]
    /\ \E r \in Ranges : fn_pos = [f \in Fns |-> IF f = 1 THEN r ELSE <<1, 2>>]
    /\ fn_nested = [f \in Fns |-> IF f = 1 THEN Fns \ {1} ELSE {}]
    /\ frames = NoFrames

PatchScriptFunction(chg) ==
    /\ Fits(fn_pos[1], chg)
    /\ PatchFunctionPositions(SharedInfoWrapper(1), chg)

PatchUnwrapped(chg) == PatchFunctionPositions(PlainArray(<<>>), chg)

NextPatch ==
    \/ \E chg \in ChangeArrays : PatchScriptFunction(chg)
    \/ PatchUnwrapped(<<>>)

SpecPatch == InitPatch /\ [][NextPatch]_vars

----------------------------------------------------------------------------
(* ReplaceScript with and without a name for the previous version *)

SourceTexts == TextsOfLen(0) \cup TextsOfLen(1)

ScriptValues == {WrapScript(s) : s \in ScriptIds} \cup {WrapSFI(1)}

\* a previous version is only kept while there is room for one more script
Room(old_script_name) ==
    IsString(old_script_name) => Len(script_source) < MaxScripts

\* what a caller passes as the name of the previous version
OldScriptNames == {Undefined, Null, Str(<<"a">>)}

ReplaceScriptWithRoom(v, t, n) == Room(n) /\ ReplaceScript(v, t, n)

InitIdle == InitControl /\ InitHeap /\ frames = NoFrames

NextSource ==
    \E v \in ScriptValues, t \in SourceTexts, n \in OldScriptNames :
        ReplaceScriptWithRoom(v, t, n)

SpecSource == InitIdle /\ [][NextSource]_vars

----------------------------------------------------------------------------
(* ReplaceScript, FixupScript and FunctionSetScript in any order *)

\* every record of the list fits the new list
FixupFits(s, max_function_literal_id) ==
    \A i \in 1..Len(script_sfis[s]) :
        script_sfis[s][i] # NoFn
            => fn_lit[script_sfis[s][i]] <= max_function_literal_id

FixupFitting(s, m) == FixupFits(s, m) /\ FixupScript(WrapScript(s), m)

FixupUnwrapped == FixupScript(WrapSFI(1), NumFns)

MoveFunction(fo, so) == FunctionSetScript(fo, so)

NextScript ==
    \/ \E v \in ScriptValues, n \in {Undefined, Str(<<"a">>)} :
          ReplaceScriptWithRoom(v, <<"a">>, n)
    \/ \E s \in ScriptIds, m \in {NumFns - 1, NumFns} : FixupFitting(s, m)
    \/ FixupUnwrapped
    \/ \E fo \in {WrapSFI(f) : f \in Fns} \cup {Undefined, WrapScript(1)},
          so \in {WrapScript(s) : s \in ScriptIds}
                     \cup {Undefined, WrapSFI(1)} :
          MoveFunction(fo, so)

SpecScript == InitIdle /\ [][NextScript]_vars

----------------------------------------------------------------------------
(* Every entry point *)

Init == InitControl /\ InitHeap /\ frames \in {NoFrames, BusyFrames}

Next ==
    \/ \E v \in {WrapScript(1), WrapSFI(1)} :
          FindSharedFunctionInfosForScript(v)
    \/ \E ok \in BOOLEAN : GatherCompileInfo(WrapScript(1), <<"a">>, ok)
    \/ \E n \in {Undefined, Str(<<"a">>)} :
          ReplaceScriptWithRoom(WrapScript(1), <<"a">>, n)
    \/ FixupFitting(1, NumFns)
    \/ \E id \in {NumFns - 1, NumFns} :
          FunctionSourceUpdated(SharedInfoWrapper(NumFns), id)
    \/ SwapOne(1, "code1")
    \/ \E so \in {Undefined, WrapScript(1)} :
          FunctionSetScript(WrapSFI(NumFns), so)
    \/ ReplaceRefToNestedFunction(WrapSFI(1), WrapSFI(NumFns), WrapSFI(1))
    \/ PatchScriptFunction(<<<<0, 0, 1>>>>)
    \/ \E do_drop \in BOOLEAN : CheckOne(1, do_drop)
    \/ \E s1 \in SourceTexts, s2 \in SourceTexts : CompareStrings(s1, s2)

Spec == Init /\ [][Next]_vars

----------------------------------------------------------------------------
(* Properties of the entry points *)

Called(c, op) == c.op = op /\ c.result # Fatal

\* the text obtained from old by replacing each region of chg by the span
\* of new that ends at the region's new end; pos is the old offset reached
RECURSIVE ApplyFrom(_, _, _, _, _)
ApplyFrom(old, new, chg, k, pos) ==
    IF k > Len(chg) THEN Slice(old, pos, Len(old))
    ELSE Slice(old, pos, chg[k][1])
         \o Slice(new,
                  chg[k][1] + (IF k = 1 THEN 0
                               ELSE chg[k - 1][3] - chg[k - 1][2]),
                  chg[k][3])
         \o ApplyFrom(old, new, chg, k + 1, chg[k][2])

ApplyRegions(old, new, chg) == ApplyFrom(old, new, chg, 1, 0)

\* C4: replacing in A every region returned by CompareStrings(A, B) by the
\* matching span of B gives exactly B
DiffRoundTrip ==
    Called(call, "CompareStrings")
        => ApplyRegions(call.args[1][2], call.args[2][2], call.result[3])
               = call.args[2][2]

DiffRoundTripSeen ==
    /\ Called(call, "CompareStrings")
    /\ Len(call.result[3]) = 2
    /\ call.args[1][2] # <<>>

\* C9: CompareStrings returns the differencer's list as it is, records the
\* live-edit feature when that list is not empty and records nothing when
\* it is empty
TrackOnlyNonEmptyDiff ==
    [][Called(call', "CompareStrings")
         => /\ call'.result = PlainArray(LiveEdit_CompareStrings(
                                  call'.args[1][2], call'.args[2][2]))
            /\ Len(call'.result[3]) > 0 => feature_tracked'
            /\ Len(call'.result[3]) = 0
                  => feature_tracked' = feature_tracked]_vars

TrackedDiffSeen ==
    /\ Called(call, "CompareStrings")
    /\ Len(call.result[3]) > 0
    /\ feature_tracked

IsCheck(c, do_drop) ==
    Called(c, "CheckAndDropActivations") /\ c.args[3] = do_drop

\* C2: without forced drop the status array has one entry per old function,
\* AVAILABLE when the function has no frame on any thread and BLOCKED_ACTIVE
\* when it has one, whatever the new array holds
StatusPerFunction ==
    [][IsCheck(call', FALSE)
         => LET old == call'.args[1][3]
                status == call'.result[3]
            IN  /\ Len(status) = Len(old)
                /\ \A i \in 1..Len(old) :
                      /\ status[i] = "AVAILABLE"
                            <=> ~HasActivation(frames, old[i][3])
                      /\ HasActivation(frames, old[i][3])
                            => status[i] = "BLOCKED_ACTIVE"]_vars

StatusPerFunctionSeen ==
    /\ IsCheck(call, FALSE)
    /\ call.result[3] = <<"AVAILABLE", "BLOCKED_ACTIVE">>
    /\ call.args[2][3] = <<Undefined, Undefined>>

\* C3: a check without forced drop changes no frame, no function and no
\* script, and repeating it right away gives the same status array
CheckIsIdempotent ==
    [][/\ IsCheck(call', FALSE) => UNCHANGED <<frames, heap>>
       /\ (IsCheck(call, FALSE) /\ IsCheck(call', FALSE)
           /\ call'.args = call.args)
            => call'.result = call.result]_vars

CheckRepeatedSeen ==
    /\ IsCheck(call, FALSE)
    /\ repeated
    /\ \E i \in 1..Len(call.result[3]) : call.result[3][i] = "BLOCKED_ACTIVE"

MalformedArgs(old, new) ==
    \/ Len(old) # Len(new)
    \/ \E i \in 1..Len(old) : ~WrapsSFI(old[i])
    \/ \E i \in 1..Len(new) : new[i] # Undefined /\ ~WrapsSFI(new[i])

\* C8: a check with arrays of different lengths, or with an old element that
\* is no wrapped function, or a new element that is neither undefined nor a
\* wrapped function, fails and changes no frame and no function, forced drop
\* or not
MalformedCheckHasNoEffect ==
    [][(call'.op = "CheckAndDropActivations"
        /\ MalformedArgs(call'.args[1][3], call'.args[2][3]))
         => /\ call'.result = Fatal
            /\ UNCHANGED <<frames, heap>>]_vars

MalformedCheckSeen ==
    /\ call.op = "CheckAndDropActivations"
    /\ call.result = Fatal
    /\ live_edit_enabled
    /\ call.args[3] = TRUE
    /\ call.args[1][3] = <<WrapSFI(1)>>
    /\ call.args[2][3] = <<WrapScript(1)>>
    /\ frames = BusyFrames

IsSwap(c) ==
    /\ c.op = "ReplaceFunctionCode"
    /\ SharedInfoWrapper_IsInstance(c.args[2])

\* C1: replacing the code of a function that still has a live
\* frame fails with an error and changes no code reference
SwapFailsWhenBlocked ==
    [][(live_edit_enabled /\ IsSwap(call')
        /\ HasActivation(frames, call'.args[2][3]))
         => /\ call'.result \in {Exception, Fatal}
            /\ fn_code' = fn_code]_vars

IsPatch(c) ==
    /\ Called(c, "PatchFunctionPositions")
    /\ SharedInfoWrapper_IsInstance(c.args[1])

RangeLength(r) == r[2] - r[1]

\* [s, e) and the replaced interval of region r have no offset in common
Disjoint(r, s, e) == e <= r[1] \/ r[2] <= s

Clear(r, s, e) == r[2] <= s \/ e < r[1]

PreviousVersionKept ==
    [][Called(call', "ReplaceScript")
         => LET s == call'.args[1][3]
                name == call'.args[3]
            IN  /\ script_source'[s] = call'.args[2][2]
                /\ IsString(name)
                      => /\ WrapsScript(call'.result)
                         /\ call'.result[3] \in 1..Len(script_source')
                         /\ call'.result[3] # s
                         /\ script_source'[call'.result[3]]
                                = script_source[s]
                /\ ~IsString(name) => call'.result = Null]_vars

PreviousVersionSeen ==
    /\ Called(call, "ReplaceScript")
    /\ IsString(call.args[3])
    /\ WrapsScript(call.result)
    /\ script_source[call.result[3]] = InitSource
    /\ script_source[call.args[1][3]] = <<NL>>

InList(s, f) == \E i \in 1..Len(script_sfis[s]) : script_sfis[s][i] = f

DisabledCallAborts ==
    [][~live_edit_enabled
         => /\ call'.result = Fatal
            /\ halted'
            /\ UNCHANGED <<heap, frames, feature_tracked>>]_vars

DisabledCallSeen ==
    /\ ~live_edit_enabled
    /\ halted
    /\ call.op = "CheckAndDropActivations"
    /\ call.args[3] = TRUE
    /\ frames = BusyFrames

====
